---- MODULE Spec2Model ----
(***************************************************************************)
(* Model of gif_uploader.py: the chunker, the checksum trailer, the packet *)
(* encoder and the upload session of main().                               *)
(*                                                                         *)
(* A Python hex string is a sequence of hexadecimal digits 0..15 (letter   *)
(* case, which neither int(.., 16) nor bytearray.fromhex distinguishes, is *)
(* not represented).  A bytes value is a sequence of 0..255.               *)
(***************************************************************************)
EXTENDS Integers, Sequences, FiniteSets, TLC

(***************************************************************************)
(* Bounds of the model.                                                    *)
(***************************************************************************)
\* small input files have up to MaxChunks chunks (the 255-chunk files are extra)
MaxChunks == 2
\* notifications the device has emitted and the host has not yet handled
MaxPending == 1

(***************************************************************************)
(* Program constants.                                                      *)
(***************************************************************************)
\* chunk_size=392, the default parameter of file_to_hex_chunks
chunk_size == 392
\* if len(hex_chunks) > 255
MAX_CHUNKS == 255
\* header += hex(int(len(payload)/ 2) + 41)[2:]
LENGTH_OFFSET == 41

\* "aa55ffff"
FRAME_START == <<10,10,5,5,15,15,15,15>>
\* "c1020901010c01000d01000e0100140301090a11040001000a1207"
HEADER_CONST == <<12,1,0,2,0,9,0,1,0,1,0,12,0,1,0,0,0,13,0,1,0,0,0,14,0,1,0,0,1,4,0,3,0,1,0,9,0,10,1,1,0,4,0,0,0,1,0,0,0,10,1,2,0,7>>
\* "c4000013"
HEADER_TAIL == <<12,4,0,0,0,0,1,3>>
\* "81c4"
HEADER_LEN_DEP == <<8,1,12,4>>
\* "aa55ffff0a000900c102080200ffdc04"
RESET_ERASE == <<10,10,5,5,15,15,15,15,0,10,0,0,0,9,0,0,12,1,0,2,0,8,0,2,0,0,15,15,13,12,0,4>>
\* "aa55ffff0a000900c10208020000dd03"
RESET_READY == <<10,10,5,5,15,15,15,15,0,10,0,0,0,9,0,0,12,1,0,2,0,8,0,2,0,0,0,0,13,13,0,3>>
\* "aa55ffff0b000f00c10236030100001404"
FINALIZE == <<10,10,5,5,15,15,15,15,0,11,0,0,0,15,0,0,12,1,0,2,3,6,0,3,0,1,0,0,0,0,1,4,0,4>>
\* "GIF87a".encode("ascii").hex()
GIF87a == <<4,7,4,9,4,6,3,8,3,7,6,1>>
\* "GIF89a".encode("ascii").hex()
GIF89a == <<4,7,4,9,4,6,3,8,3,9,6,1>>

(***************************************************************************)
(* Python's string and bytes primitives.                                   *)
(***************************************************************************)
\* the element of a one-element set.  Only({F(x) : x \in {e}}) is F(e) with e
\* evaluated once, however often F uses it
Only(S) == CHOOSE x \in S : TRUE

\* len(s)
len(s) == Len(s)

Min(a, b) == IF a < b THEN a ELSE b

\* s[i:j] for 0 <= i <= j: the slice stops at the end of s
Slice(s, i, j) == SubSeq(s, i + 1, Min(j, len(s)))

\* s.ljust(width, '0') and s.zfill(width) on strings of digits
LJust(s, width) == Only({sv \o [k \in 1..(width - len(sv)) |-> 0] : sv \in {s}})

ZFill(s, width) == Only({[k \in 1..(width - len(sv)) |-> 0] \o sv : sv \in {s}})

\* the digits of hex(n)[2:], without leading zeros
RECURSIVE HexDigits(_)
HexDigits(n) == Only({IF nv < 16 THEN <<nv>> ELSE Append(HexDigits(nv \div 16), nv % 16) : nv \in {n}})

\* f"{n:02X}", f"{n:04x}": at least `width` digits
FormatHex(n, width) == ZFill(HexDigits(n), width)

\* int(s, 16) for s of one or two digits, which is what h[i:i+2] is for i < len(h)
IntHex(s) == IF len(s) = 1 THEN s[1] ELSE 16 * s[1] + s[2]

\* bytearray.fromhex(h), for h of even length (an odd length raises ValueError)
FromHexOk(h) == len(h) % 2 = 0

FromHex(h) == Only({[k \in 1..(len(hv) \div 2) |-> IntHex(Slice(hv, 2 * k - 2, 2 * k))] : hv \in {h}})

\* range(start, stop, step) for step > 0, as a sequence
Range(start, stop, step) == <<>> \o [m \in 1..(IF stop > start THEN (stop - start + step - 1) \div step ELSE 0) |-> start + (m - 1) * step]

\* int(h[i:i+2], 16) for 0 <= i < len(h): the slice is one digit at the end of an odd h
IntHexAt(h, i) == IF i + 2 <= len(h) THEN 16 * h[i + 1] + h[i + 2] ELSE h[i + 1]

\* sum(int(h[i:i+2], 16) for i in r): the terms r[lo..hi] added pairwise
RECURSIVE SumTerms(_, _, _, _)
SumTerms(h, r, lo, hi) ==
    IF lo > hi THEN 0
    ELSE IF lo = hi THEN IntHexAt(h, r[lo])
    ELSE Only({SumTerms(h, r, lo, mid) + SumTerms(h, r, mid + 1, hi) : mid \in {(lo + hi) \div 2}})

SumOver(h, r) == Only({SumTerms(hv, rv, 1, len(rv)) : hv \in {h}, rv \in {r}})

(***************************************************************************)
(* checksum_mod256 and calculate_last_byte.                                *)
(***************************************************************************)
checksum_mod256(hex_string) ==
    LET r == Range(0, len(hex_string), 2)
    IN  ZFill(HexDigits(SumOver(hex_string, r) % 256), 2)

\* the range stops two digits early: the last byte of hex_string is not summed
last_byte_range(hex_string) == Range(0, len(hex_string) - 2, 2)

\* a variant of calculate_last_byte: the sum is written whole, not its high byte
calculate_last_byte_mut(hex_string) ==
    LET data_bytes == last_byte_range(hex_string)
        total_sum == SumOver(hex_string, data_bytes)
    IN  FormatHex(total_sum, 2)

calculate_last_byte(hex_string) ==
    LET data_bytes == last_byte_range(hex_string)
        total_sum == SumOver(hex_string, data_bytes)
        last_byte == total_sum \div 256
    IN  FormatHex(last_byte, 2)

(***************************************************************************)
(* generate_header and generate_packet.                                    *)
(***************************************************************************)
\* a variant of generate_header: the page number is not repeated after the count
generate_header_mut(payload, index, animation_length) ==
    FRAME_START
      \o HexDigits((len(payload) \div 2) + LENGTH_OFFSET)
      \o FormatHex(index, 4) \o <<0, 0>>
      \o HEADER_CONST
      \o FormatHex(animation_length, 2)
      \o HEADER_TAIL
      \o HEADER_LEN_DEP

\* a variant of generate_header: the length byte leaves the checksum byte out
generate_header_len_mut(payload, index, animation_length) ==
    FRAME_START
      \o HexDigits((len(payload) \div 2) + LENGTH_OFFSET - 1)
      \o FormatHex(index, 4) \o <<0, 0>>
      \o HEADER_CONST
      \o FormatHex(animation_length, 2)
      \o FormatHex(index, 4) \o <<0, 0>>
      \o HEADER_TAIL
      \o HEADER_LEN_DEP

generate_header(payload, index, animation_length) ==
    FRAME_START
      \o HexDigits((len(payload) \div 2) + LENGTH_OFFSET)
      \o FormatHex(index, 4) \o <<0, 0>>
      \o HEADER_CONST
      \o FormatHex(animation_length, 2)
      \o FormatHex(index, 4) \o <<0, 0>>
      \o HEADER_TAIL
      \o HEADER_LEN_DEP

\* a variant of generate_packet: the last byte of the trailer is not appended
generate_packet_mut(payload, index, animation_length) ==
    Only({full_value \o checksum_mod256(full_value) :
            full_value \in {generate_header(chunk, index, animation_length) \o chunk : chunk \in {payload}}})

\* header = generate_header(...); full_value = header + payload;
\* checksum = checksum_mod256(full_value); with_checksum = full_value + checksum;
\* last_byte = calculate_last_byte(with_checksum); return with_checksum + last_byte
generate_packet(payload, index, animation_length) ==
    Only({with_checksum \o calculate_last_byte(with_checksum) :
            with_checksum \in
                {full_value \o checksum_mod256(full_value) :
                    full_value \in {generate_header(chunk, index, animation_length) \o chunk :
                                        chunk \in {payload}}}})

(***************************************************************************)
(* The input: the file named on the command line.  A file is given by its  *)
(* first six bytes, its length and the bytes that follow the first six.    *)
(* A string as long as the file is never built: it is its length and the   *)
(* operator that gives its k-th element (k from 1).                        *)
(***************************************************************************)
\* b"GIF87a", b"GIF89a" and a file of another format
SignatureBytes(sig) ==
    CASE sig = "GIF87a" -> <<71, 73, 70, 56, 55, 97>>
      [] sig = "GIF89a" -> <<71, 73, 70, 56, 57, 97>>
      [] OTHER          -> <<71, 73, 70, 56, 56, 97>>

FillByte(fill, k) ==
    CASE fill = "zeros" -> 0
      [] fill = "ones"  -> 255
      [] OTHER          -> k % 256

\* file.read(): its length and its k-th byte
file_read_len(file) == file.length

file_read_at(file, k) == IF k <= 6 THEN SignatureBytes(file.sig)[k] ELSE FillByte(file.fill, k)

SmallLengths == {0, 5, 6} \cup {k * (chunk_size \div 2) + d : k \in 1..MaxChunks, d \in {0, 1}}

Files ==
    [readable : {TRUE}, sig : {"GIF89a"}, fill : {"zeros", "ones", "ramp"}, length : SmallLengths]
      \cup [readable : {TRUE}, sig : {"GIF87a", "other"}, fill : {"ramp"}, length : SmallLengths]
      \cup [readable : {TRUE}, sig : {"GIF89a"}, fill : {"ones"},
            length : {MAX_CHUNKS * (chunk_size \div 2), MAX_CHUNKS * (chunk_size \div 2) + 1}]
      \cup [readable : {FALSE}, sig : {"other"}, fill : {"zeros"}, length : {0}]

(***************************************************************************)
(* file_to_hex_chunks.                                                     *)
(***************************************************************************)
\* hex_string = file.read().hex(): two digits per byte, the high one first
hex_string_len(file) == 2 * file_read_len(file)

hex_string_at(file, k) ==
    IF k % 2 = 1 THEN file_read_at(file, (k + 1) \div 2) \div 16 ELSE file_read_at(file, k \div 2) % 16

\* hex_string.startswith(p)
hex_string_startswith(file, p) ==
    len(p) <= hex_string_len(file) /\ \A k \in 1..len(p) : hex_string_at(file, k) = p[k]

\* hex_string[i:j]
hex_string_slice(file, i, j) ==
    <<>> \o [k \in 1..(Min(j, hex_string_len(file)) - Min(i, hex_string_len(file))) |-> hex_string_at(file, i + k)]

\* a variant of pad_chunk: the slice is not padded
pad_chunk_mut(slice, size) == slice

\* .ljust(chunk_size, '0'): the padding of a slice
pad_chunk(slice, size) == LJust(slice, size)

\* the list comprehension of lines 138-143: one chunk for each i of
\* range(0, len(hex_string), chunk_size); hex_chunks[m - 1] is split_hex_chunks_at(file, size, m)
chunk_starts(file, size) == Range(0, hex_string_len(file), size)

split_hex_chunks_len(file, size) == len(chunk_starts(file, size))

split_hex_chunks_at(file, size, m) ==
    Only({pad_chunk(hex_string_slice(file, i, i + size), size) : i \in {chunk_starts(file, size)[m]}})

\* a variant of too_many_chunks: 256 chunks are let through
too_many_chunks_mut(count) == count > MAX_CHUNKS + 1

\* the check of lines 146-148
too_many_chunks(count) == count > MAX_CHUNKS

\* "none": hex_chunks is returned; otherwise the message printed before sys.exit(1)
file_to_hex_chunks(file) ==
    IF ~file.readable
    THEN "Unable to open GIF file"
    ELSE IF ~(hex_string_startswith(file, GIF87a) \/ hex_string_startswith(file, GIF89a))
    THEN "is not a valid GIF file"
    ELSE IF too_many_chunks(split_hex_chunks_len(file, chunk_size))
    THEN "Please select a smaller GIF file"
    ELSE "none"

(***************************************************************************)
(* The state of a run of main().                                           *)
(***************************************************************************)
VARIABLES
    gif,                 \* the file GIF_FILE_NAME names
    pc,                  \* where main() is: "start", an await it is suspended in, "loop", "exited"
    packet_index,        \* packet_index
    notification_event,  \* notification_event.is_set()
    connected,           \* the BLE link is up
    subscribed,          \* the characteristics start_notify has succeeded for
    opened,              \* BleakClient(DEVICE_ADDRESS) has been entered: connect() was called
    exc,                 \* the exception propagating out of the async with block
    printed,             \* the messages printed, in order
    exit_code,           \* the exit status of the process, "none" while it runs
    written,             \* the write_gatt_char calls issued, in order: which call and packet_index
    last_frame,          \* the bytes of the latest write_gatt_char call
    returned,            \* how many write_gatt_char calls have returned
    raised,              \* how many write_gatt_char calls have raised
    acked,               \* how many waits of line 211 returned without timing out
    pending,             \* the causes of the notifications the device has emitted, not yet handled
    heard,               \* the notifications handled while a data packet is outstanding: from the
                         \* clear() before its write to the end of the write (if it raises) or of the wait
    encoder_call,        \* the arguments of a call of generate_packet made outside main(): which
                         \* chunk of the file, index and animation_length; "none" in a run of main()
    encoder_result       \* what that call returned, "none" before it returns

vars == <<gif, pc, packet_index, notification_event, connected, subscribed, opened, exc, printed,
          exit_code, written, last_frame, returned, raised, acked, pending, heard,
          encoder_call, encoder_result>>

\* hex_chunks of main(), assigned once at line 168 from the file: len(hex_chunks)
\* and the chunk the loop holds when packet_index = index
hex_chunks_len == split_hex_chunks_len(gif, chunk_size)

hex_chunk(index) == split_hex_chunks_at(gif, chunk_size, index + 1)

Sources == {"indications", "notifications"}
Causes == {"current", "earlier"}

\* main() is suspended in an await: the event loop may run notification_handler
AwaitPcs == {"connect", "start_notify_indications", "start_notify_notifications",
             "reset_write_erase", "reset_sleep_1", "reset_write_ready", "reset_sleep_2",
             "write_data", "wait_ack", "write_finalize_1", "write_finalize_2", "disconnect"}

WritePcs == {"reset_write_erase", "reset_write_ready", "write_data", "write_finalize_1", "write_finalize_2"}

Init ==
    /\ gif \in Files
    /\ pc = "start"
    /\ packet_index = 0
    /\ notification_event = FALSE
    /\ connected = FALSE
    /\ subscribed = {}
    /\ opened = FALSE
    /\ exc = "none"
    /\ printed = <<>>
    /\ exit_code = "none"
    /\ written = <<>>
    /\ last_frame = <<>>
    /\ returned = 0
    /\ raised = 0
    /\ acked = 0
    /\ pending = {}
    /\ heard = {}
    /\ encoder_call = "none"
    /\ encoder_result = "none"


\* client.write_gatt_char(HANDLE, bytearray.fromhex(h), response=False) is called:
\* the frame is handed to the transport, and whatever the device still has to say
\* is from now on about an earlier frame
IssueWrite(call, h) ==
    /\ written' = Append(written, [call |-> call, index |-> packet_index])
    /\ last_frame' = FromHex(h)
    /\ pending' = {"earlier" : cause \in pending}

\* a variant of SysExit: sys.exit(1) ends the process without leaving the block
SysExit_mut(messages) ==
    /\ printed' = printed \o messages
    /\ exc' = "SystemExit"
    /\ pc' = "exited"

\* print(...) then sys.exit(1) inside the async with block: SystemExit leaves the
\* block through __aexit__, which disconnects
SysExit(messages) ==
    /\ printed' = printed \o messages
    /\ exc' = "SystemExit"
    /\ pc' = "disconnect"

(***************************************************************************)
(* main(), lines 159-170: the file is chunked before the client is made.   *)
(***************************************************************************)
Start ==
    /\ pc = "start"
    /\ LET r == file_to_hex_chunks(gif)
       IN  IF r # "none"
           THEN /\ printed' = Append(printed, r)
                /\ exit_code' = "1"
                /\ pc' = "exited"
                /\ opened' = opened
           ELSE /\ pc' = "connect"
                /\ opened' = TRUE
                /\ UNCHANGED <<printed, exit_code>>
    /\ UNCHANGED <<encoder_call, encoder_result, gif, packet_index, notification_event, connected, subscribed, exc,
                   written, last_frame, returned, raised, acked, pending, heard>>

\* async with BleakClient(DEVICE_ADDRESS) as client: __aenter__ returns with the
\* link up; if client.is_connected: start_notify(INDICATIONS_UUID, ...) is called
ConnectReturn ==
    /\ pc = "connect"
    /\ connected' = TRUE
    /\ pc' = "start_notify_indications"
    /\ UNCHANGED <<encoder_call, encoder_result, gif, packet_index, notification_event, subscribed, opened, exc, printed,
                   exit_code, written, last_frame, returned, raised, acked, pending, heard>>

\* __aenter__ returns and client.is_connected is False: lines 229-231
ConnectReturnNotConnected ==
    /\ pc = "connect"
    /\ SysExit(<<"Failed to connect to the device">>)
    /\ UNCHANGED <<encoder_call, encoder_result, gif, packet_index, notification_event, connected, subscribed, opened,
                   exit_code, written, last_frame, returned, raised, acked, pending, heard>>

\* __aenter__ raises: the block is never entered and the exception ends the process
ConnectRaise ==
    /\ pc = "connect"
    /\ exc' = "Exception"
    /\ exit_code' = "1"
    /\ pc' = "exited"
    /\ UNCHANGED <<encoder_call, encoder_result, gif, packet_index, notification_event, connected, subscribed, opened,
                   printed, written, last_frame, returned, raised, acked, pending, heard>>

\* lines 172-175: start_notify(INDICATIONS_UUID, notification_handler) returns
StartNotifyIndicationsReturn ==
    /\ pc = "start_notify_indications"
    /\ subscribed' = subscribed \cup {"indications"}
    /\ pc' = "start_notify_notifications"
    /\ UNCHANGED <<encoder_call, encoder_result, gif, packet_index, notification_event, connected, opened, exc, printed,
                   exit_code, written, last_frame, returned, raised, acked, pending, heard>>

\* a variant of StartNotifyIndicationsRaise: the failure of the first start_notify is ignored
StartNotifyIndicationsRaise_mut ==
    /\ pc = "start_notify_indications"
    /\ pc' = "start_notify_notifications"
    /\ UNCHANGED <<encoder_call, encoder_result, gif, packet_index, notification_event, connected, subscribed, opened, exc,
                   printed, exit_code, written, last_frame, returned, raised, acked, pending, heard>>

\* lines 176-178
StartNotifyIndicationsRaise ==
    /\ pc = "start_notify_indications"
    /\ SysExit(<<"Failed to enable indications">>)
    /\ UNCHANGED <<encoder_call, encoder_result, gif, packet_index, notification_event, connected, subscribed, opened,
                   exit_code, written, last_frame, returned, raised, acked, pending, heard>>

\* lines 180-183 and 188: start_notify(NOTIFICATIONS_UUID, ...) returns and
\* reset_screen() issues its first write (line 69)
StartNotifyNotificationsReturn ==
    /\ pc = "start_notify_notifications"
    /\ subscribed' = subscribed \cup {"notifications"}
    /\ IssueWrite("reset_erase", RESET_ERASE)
    /\ pc' = "reset_write_erase"
    /\ UNCHANGED <<encoder_call, encoder_result, gif, packet_index, notification_event, connected, opened, exc, printed,
                   exit_code, returned, raised, acked, heard>>

\* lines 184-186
StartNotifyNotificationsRaise ==
    /\ pc = "start_notify_notifications"
    /\ SysExit(<<"Failed to enable notifications">>)
    /\ UNCHANGED <<encoder_call, encoder_result, gif, packet_index, notification_event, connected, subscribed, opened,
                   exit_code, written, last_frame, returned, raised, acked, pending, heard>>

(***************************************************************************)
(* reset_screen(), lines 66-73.                                            *)
(***************************************************************************)
\* the write of line 69 returns; await asyncio.sleep(0.5)
ResetEraseReturn ==
    /\ pc = "reset_write_erase"
    /\ returned' = returned + 1
    /\ pc' = "reset_sleep_1"
    /\ UNCHANGED <<encoder_call, encoder_result, gif, packet_index, notification_event, connected, subscribed, opened, exc,
                   printed, exit_code, written, last_frame, acked, pending, heard, raised>>

\* a variant of ResetSleep1Return: reset_screen() skips its second write
ResetSleep1Return_mut ==
    /\ pc = "reset_sleep_1"
    /\ pc' = "reset_sleep_2"
    /\ UNCHANGED <<encoder_call, encoder_result, gif, packet_index, notification_event, connected, subscribed, opened, exc,
                   printed, exit_code, written, last_frame, returned, raised, acked, pending, heard>>

\* the sleep of line 70 ends; the write of line 72 is issued
ResetSleep1Return ==
    /\ pc = "reset_sleep_1"
    /\ IssueWrite("reset_ready", RESET_READY)
    /\ pc' = "reset_write_ready"
    /\ UNCHANGED <<encoder_call, encoder_result, gif, packet_index, notification_event, connected, subscribed, opened, exc,
                   printed, exit_code, returned, raised, acked, heard>>

\* the write of line 72 returns; await asyncio.sleep(0.5)
ResetReadyReturn ==
    /\ pc = "reset_write_ready"
    /\ returned' = returned + 1
    /\ pc' = "reset_sleep_2"
    /\ UNCHANGED <<encoder_call, encoder_result, gif, packet_index, notification_event, connected, subscribed, opened, exc,
                   printed, exit_code, written, last_frame, acked, pending, heard, raised>>

\* the sleep of line 73 ends, reset_screen() returns; lines 190-195
ResetSleep2Return ==
    /\ pc = "reset_sleep_2"
    /\ packet_index' = 0
    /\ pc' = "loop"
    /\ UNCHANGED <<encoder_call, encoder_result, gif, notification_event, connected, subscribed, opened, exc, printed,
                   exit_code, written, last_frame, returned, raised, acked, pending, heard>>

\* a write of reset_screen() or of lines 224-225 raises: nothing catches it
ControlWriteRaise ==
    /\ pc \in WritePcs \ {"write_data"}
    /\ raised' = raised + 1
    /\ exc' = "Exception"
    /\ pc' = "disconnect"
    /\ UNCHANGED <<encoder_call, encoder_result, gif, packet_index, notification_event, connected, subscribed, opened,
                   printed, exit_code, written, last_frame, acked, pending, heard, returned>>

(***************************************************************************)
(* The packet loop, lines 197-219.                                         *)
(***************************************************************************)
\* a variant of event_clear: the event is not cleared
event_clear_mut(event) == event

\* notification_event.clear()
event_clear(event) == FALSE

\* one iteration up to its first await: lines 198-206.  bytearray.fromhex raises
\* ValueError on a packet of odd length, inside the try
LoopIteration ==
    /\ pc = "loop"
    /\ packet_index < hex_chunks_len
    /\ notification_event' = event_clear(notification_event)
    /\ heard' = {}
    /\ \E packet \in {generate_packet(hex_chunk(packet_index), packet_index, hex_chunks_len)} :
           IF FromHexOk(packet)
           THEN /\ IssueWrite("data", packet)
                /\ pc' = "write_data"
                /\ UNCHANGED <<exc, printed>>
           ELSE /\ SysExit(<<"ValueError", "An upload error occurred!">>)
                /\ UNCHANGED <<written, last_frame, pending>>
    /\ UNCHANGED <<encoder_call, encoder_result, gif, packet_index, connected, subscribed, opened, exit_code, returned, raised, acked>>

\* a variant of DataWriteReturn: the event is cleared after the write, before the wait
DataWriteReturn_mut ==
    /\ pc = "write_data"
    /\ returned' = returned + 1
    /\ notification_event' = FALSE
    /\ pc' = "wait_ack"
    /\ UNCHANGED <<encoder_call, encoder_result, gif, packet_index, connected, subscribed, opened,
                   exc, printed, exit_code, written, last_frame, acked, pending, heard, raised>>

\* the write of line 206 returns; await asyncio.wait_for(notification_event.wait(), timeout=0.75)
DataWriteReturn ==
    /\ pc = "write_data"
    /\ returned' = returned + 1
    /\ pc' = "wait_ack"
    /\ UNCHANGED <<encoder_call, encoder_result, gif, packet_index, notification_event, connected, subscribed, opened, exc,
                   printed, exit_code, written, last_frame, acked, pending, heard, raised>>

\* a variant of DataWriteRaise: a failed write is skipped and the loop goes on
DataWriteRaise_mut ==
    /\ pc = "write_data"
    /\ raised' = raised + 1
    /\ packet_index' = packet_index + 1
    /\ heard' = {}
    /\ pc' = "loop"
    /\ UNCHANGED <<encoder_call, encoder_result, gif, notification_event, connected, subscribed, opened, exc, printed,
                   exit_code, written, last_frame, acked, pending, returned>>

\* the write of line 206 raises: lines 214-217
DataWriteRaise ==
    /\ pc = "write_data"
    /\ raised' = raised + 1
    /\ SysExit(<<"write error", "An upload error occurred!">>)
    /\ heard' = {}
    /\ UNCHANGED <<encoder_call, encoder_result, gif, packet_index, notification_event, connected, subscribed, opened,
                   exit_code, written, last_frame, acked, pending, returned>>

\* a variant of AckWaitReturn: packet_index is not incremented
AckWaitReturn_mut ==
    /\ pc = "wait_ack"
    /\ notification_event
    /\ acked' = acked + 1
    /\ heard' = {}
    /\ pc' = "loop"
    /\ UNCHANGED <<encoder_call, encoder_result, gif, packet_index, notification_event, connected,
                   subscribed, opened, exc, printed, exit_code, written, last_frame, returned,
                   raised, pending>>

\* the wait of line 211 returns because the event is set; lines 213 and 219
AckWaitReturn ==
    /\ pc = "wait_ack"
    /\ notification_event
    /\ acked' = acked + 1
    /\ packet_index' = packet_index + 1
    /\ heard' = {}
    /\ pc' = "loop"
    /\ UNCHANGED <<encoder_call, encoder_result, gif, notification_event, connected, subscribed, opened, exc, printed,
                   exit_code, written, last_frame, returned, raised, pending>>

\* a variant of AckWaitTimeout: after a timeout the same packet is sent again
AckWaitTimeout_retry_mut ==
    /\ pc = "wait_ack"
    /\ ~notification_event
    /\ heard' = {}
    /\ pc' = "loop"
    /\ UNCHANGED <<encoder_call, encoder_result, gif, packet_index, notification_event, connected,
                   subscribed, opened, exc, printed, exit_code, written, last_frame, returned,
                   raised, acked, pending>>

\* a variant of AckWaitTimeout: a timeout is ignored and the loop goes on
AckWaitTimeout_mut ==
    /\ pc = "wait_ack"
    /\ ~notification_event
    /\ packet_index' = packet_index + 1
    /\ heard' = {}
    /\ pc' = "loop"
    /\ UNCHANGED <<encoder_call, encoder_result, gif, notification_event, connected, subscribed, opened, exc, printed,
                   exit_code, written, last_frame, returned, raised, acked, pending>>

\* the wait of line 211 times out (the event was not set within 0.75 s): lines 214-217
AckWaitTimeout ==
    /\ pc = "wait_ack"
    /\ ~notification_event
    /\ SysExit(<<"TimeoutError", "An upload error occurred!">>)
    /\ heard' = {}
    /\ UNCHANGED <<encoder_call, encoder_result, gif, packet_index, notification_event, connected, subscribed, opened,
                   exit_code, written, last_frame, returned, raised, acked, pending>>

(***************************************************************************)
(* After the loop, lines 221-227, and the end of the async with block.     *)
(***************************************************************************)
\* a variant of LoopEnd: the loop ends one packet early
LoopEnd_mut ==
    /\ pc = "loop"
    /\ packet_index >= hex_chunks_len - 1
    /\ IssueWrite("finalize_1", FINALIZE)
    /\ pc' = "write_finalize_1"
    /\ UNCHANGED <<encoder_call, encoder_result, gif, packet_index, notification_event, connected, subscribed, opened, exc,
                   printed, exit_code, returned, raised, acked, heard>>

\* the loop is exhausted: the first finalize write (line 224) is issued
LoopEnd ==
    /\ pc = "loop"
    /\ packet_index >= hex_chunks_len
    /\ IssueWrite("finalize_1", FINALIZE)
    /\ pc' = "write_finalize_1"
    /\ UNCHANGED <<encoder_call, encoder_result, gif, packet_index, notification_event, connected, subscribed, opened, exc,
                   printed, exit_code, returned, raised, acked, heard>>

\* a variant of Finalize1Return: the finalize frame is written once
Finalize1Return_mut ==
    /\ pc = "write_finalize_1"
    /\ returned' = returned + 1
    /\ printed' = Append(printed, "Upload successful!")
    /\ pc' = "disconnect"
    /\ UNCHANGED <<encoder_call, encoder_result, gif, packet_index, notification_event, connected, subscribed, opened, exc,
                   exit_code, written, last_frame, acked, pending, heard, raised>>

\* the write of line 224 returns; the write of line 225 is issued
Finalize1Return ==
    /\ pc = "write_finalize_1"
    /\ returned' = returned + 1
    /\ IssueWrite("finalize_2", FINALIZE)
    /\ pc' = "write_finalize_2"
    /\ UNCHANGED <<encoder_call, encoder_result, gif, packet_index, notification_event, connected, subscribed, opened, exc,
                   printed, exit_code, acked, heard, raised>>

\* the write of line 225 returns; line 227; the block ends and __aexit__ disconnects
Finalize2Return ==
    /\ pc = "write_finalize_2"
    /\ returned' = returned + 1
    /\ printed' = Append(printed, "Upload successful!")
    /\ pc' = "disconnect"
    /\ UNCHANGED <<encoder_call, encoder_result, gif, packet_index, notification_event, connected, subscribed, opened, exc,
                   exit_code, written, last_frame, acked, pending, heard, raised>>

\* __aexit__ returns: the link is down; SystemExit(1) or an exception that was
\* propagating ends the process with status 1, otherwise asyncio.run returns
DisconnectReturn ==
    /\ pc = "disconnect"
    /\ connected' = FALSE
    /\ pending' = {}
    /\ exit_code' = IF exc = "none" THEN "0" ELSE "1"
    /\ pc' = "exited"
    /\ UNCHANGED <<encoder_call, encoder_result, gif, packet_index, notification_event, subscribed, opened, exc, printed,
                   written, last_frame, returned, raised, acked, heard>>

\* __aexit__ raises: disconnect() failed, the link may still be up, and the
\* exception of disconnect() is the one that ends the process
DisconnectRaise ==
    /\ pc = "disconnect"
    /\ exc' = "DisconnectException"
    /\ exit_code' = "1"
    /\ pc' = "exited"
    /\ UNCHANGED <<encoder_call, encoder_result, gif, packet_index, notification_event, connected, subscribed, opened,
                   printed, written, last_frame, returned, raised, acked, pending, heard>>

(***************************************************************************)
(* The device and the event loop.                                          *)
(***************************************************************************)
\* the device emits a notification on a subscribed characteristic, caused by
\* the latest frame written ("current") or by an earlier frame or by nothing
DeviceEmit ==
    /\ connected
    /\ pc # "exited"
    /\ subscribed # {}
    /\ Cardinality(pending) < MaxPending
    /\ \E cause \in Causes \ pending :
         /\ cause = "current" => written # <<>>
         /\ pending' = pending \cup {cause}
    /\ UNCHANGED <<encoder_call, encoder_result, gif, pc, packet_index, notification_event, connected, subscribed, opened,
                   exc, printed, exit_code, written, last_frame, returned, raised, acked, heard>>

\* a variant of notification_handler: only data-plane notifications set the event
notification_handler_mut ==
    /\ pc \in AwaitPcs
    /\ \E cause \in pending, sender \in subscribed :
         /\ pending' = pending \ {cause}
         /\ heard' = IF pc \in {"write_data", "wait_ack"}
                     THEN heard \cup {[sender |-> sender, cause |-> cause]}
                     ELSE heard
         /\ notification_event' = (notification_event \/ sender = "notifications")
    /\ UNCHANGED <<encoder_call, encoder_result, gif, pc, packet_index, connected, subscribed,
                   opened, exc, printed, exit_code, written, last_frame, returned, raised, acked>>

\* notification_handler(sender, data), lines 156-157, run by the event loop
\* while main() is suspended in an await
notification_handler ==
    /\ pc \in AwaitPcs
    /\ \E cause \in pending, sender \in subscribed :
         /\ pending' = pending \ {cause}
         /\ heard' = IF pc \in {"write_data", "wait_ack"}
                     THEN heard \cup {[sender |-> sender, cause |-> cause]}
                     ELSE heard
    /\ notification_event' = TRUE
    /\ UNCHANGED <<encoder_call, encoder_result, gif, pc, packet_index, connected, subscribed, opened, exc, printed,
                   exit_code, written, last_frame, returned, raised, acked>>

Next ==
    \/ Start
    \/ ConnectReturn
    \/ ConnectReturnNotConnected
    \/ ConnectRaise
    \/ StartNotifyIndicationsReturn
    \/ StartNotifyIndicationsRaise
    \/ StartNotifyNotificationsReturn
    \/ StartNotifyNotificationsRaise
    \/ ResetEraseReturn
    \/ ResetSleep1Return
    \/ ResetReadyReturn
    \/ ResetSleep2Return
    \/ ControlWriteRaise
    \/ LoopIteration
    \/ DataWriteReturn
    \/ DataWriteRaise
    \/ AckWaitReturn
    \/ AckWaitTimeout
    \/ LoopEnd
    \/ Finalize1Return
    \/ Finalize2Return
    \/ DisconnectReturn
    \/ DisconnectRaise
    \/ DeviceEmit
    \/ notification_handler

Spec == Init /\ [][Next]_vars

(***************************************************************************)
(* A run against a transport that connects, accepts both subscriptions,    *)
(* returns from every write and notifies after every write: every await of *)
(* main() returns, the device goes on emitting and the event loop runs the *)
(* handler of every notification.  The wait of line 211 then never times   *)
(* out.                                                                    *)
(***************************************************************************)
MainGood ==
    \/ Start
    \/ ConnectReturn
    \/ StartNotifyIndicationsReturn
    \/ StartNotifyNotificationsReturn
    \/ ResetEraseReturn
    \/ ResetSleep1Return
    \/ ResetReadyReturn
    \/ ResetSleep2Return
    \/ LoopIteration
    \/ DataWriteReturn
    \/ AckWaitReturn
    \/ LoopEnd
    \/ Finalize1Return
    \/ Finalize2Return
    \/ DisconnectReturn

NextGood ==
    \/ MainGood
    \/ DeviceEmit
    \/ notification_handler

SpecGood ==
    /\ Init
    /\ [][NextGood]_vars
    /\ WF_vars(MainGood)
    /\ WF_vars(DeviceEmit)
    /\ WF_vars(notification_handler)

(***************************************************************************)
(* A run in which every await of lines 188-227 ends: each write_gatt_char  *)
(* call returns or raises, each sleep ends, and each wait of line 211      *)
(* returns or times out.  Nothing is assumed of the device or of when the  *)
(* event loop runs notification_handler.                                   *)
(***************************************************************************)
SessionStep ==
    \/ ResetEraseReturn
    \/ ResetSleep1Return
    \/ ResetReadyReturn
    \/ ResetSleep2Return
    \/ ControlWriteRaise
    \/ LoopIteration
    \/ DataWriteReturn
    \/ DataWriteRaise
    \/ AckWaitReturn
    \/ AckWaitTimeout
    \/ LoopEnd
    \/ Finalize1Return
    \/ Finalize2Return

SpecSession == Init /\ [][Next]_vars /\ WF_vars(SessionStep)

(***************************************************************************)
(* generate_packet called on its own, outside main(): on a chunk of a file *)
(* the chunker accepts, with an index and an animation_length that need    *)
(* not be the ones main() would pass.                                      *)
(***************************************************************************)
\* the files file_to_hex_chunks returns chunks for
ChunkableFiles == {file \in Files : file_to_hex_chunks(file) = "none"}

EncoderIndexes == {0, 1, MaxChunks, MAX_CHUNKS - 1, MAX_CHUNKS, MAX_CHUNKS + 1}

EncoderLengths == {1, MaxChunks, MAX_CHUNKS, MAX_CHUNKS + 1, 16 * (MAX_CHUNKS + 1) - 1, 16 * (MAX_CHUNKS + 1)}

InitEncoder ==
    /\ gif \in ChunkableFiles
    /\ pc = "call_generate_packet"
    /\ encoder_call \in [chunk : {1, split_hex_chunks_len(gif, chunk_size)},
                          index : EncoderIndexes,
                          animation_length : EncoderLengths]
    /\ encoder_result = "none"
    /\ packet_index = 0
    /\ notification_event = FALSE
    /\ connected = FALSE
    /\ subscribed = {}
    /\ opened = FALSE
    /\ exc = "none"
    /\ printed = <<>>
    /\ exit_code = "none"
    /\ written = <<>>
    /\ last_frame = <<>>
    /\ returned = 0
    /\ raised = 0
    /\ acked = 0
    /\ pending = {}
    /\ heard = {}

\* generate_packet(payload, index, animation_length), lines 109-122: it has no
\* raise and no check of its arguments, and returns full_value
CallGeneratePacket ==
    /\ pc = "call_generate_packet"
    /\ encoder_result' =
           generate_packet(split_hex_chunks_at(gif, chunk_size, encoder_call.chunk),
                           encoder_call.index, encoder_call.animation_length)
    /\ pc' = "generate_packet_returned"
    /\ UNCHANGED <<encoder_call, gif, packet_index, notification_event, connected, subscribed,
                   opened, exc, printed, exit_code, written, last_frame, returned, raised,
                   acked, pending, heard>>

NextEncoder == CallGeneratePacket

SpecEncoder == InitEncoder /\ [][NextEncoder]_vars

(***************************************************************************)
(* The claims.                                                             *)
(***************************************************************************)
\* the write_gatt_char call the latest step issued
IssuedWrite == written'[Len(written')]

\* C1: at most one write is in flight at any time, and a write is issued only
\* when every earlier write has returned; the write of data packet i+1 is
\* issued only after the wait for packet i has returned with the event set.
C1_OnePacketOutstanding ==
    /\ [](Len(written) - returned - raised \in {0, 1})
    /\ [][Len(written') # Len(written) =>
            /\ Len(written') = Len(written) + 1
            /\ returned' = Len(written)
            /\ (IssuedWrite.call = "data" /\ IssuedWrite.index > 0) =>
                   (acked = IssuedWrite.index /\ notification_event)]_vars

\* the write of data packet 1 is in flight, after packet 0 was acknowledged
C1_Witness ==
    /\ pc = "write_data"
    /\ packet_index = 1
    /\ acked = 1
    /\ Len(written) - returned - raised = 1

\* print("\nUpload successful!") has run
Succeeded == \E k \in 1..Len(printed) : printed[k] = "Upload successful!"

\* print("An upload error occurred!"), line 216, has run
UploadFailed == \E k \in 1..Len(printed) : printed[k] = "An upload error occurred!"

\* C2: when the wait for a data packet's acknowledgment times out, or the write
\* of a data packet raises, the session fails at once (the upload error is
\* reported and SystemExit leaves the async with block); from then on no frame
\* is written, success is never reported, and the process ends with status 1.
C2_FailFast ==
    /\ [][(\/ pc = "wait_ack" /\ ~notification_event /\ pc' # "wait_ack"
           \/ pc = "write_data" /\ raised' = raised + 1)
            => (UploadFailed' /\ exc' = "SystemExit" /\ pc' = "disconnect")]_vars
    /\ [][UploadFailed => (UploadFailed' /\ written' = written /\ exc' # "none")]_vars
    /\ [](UploadFailed => (~Succeeded /\ exc # "none" /\ exit_code # "0"))
    /\ [](UploadFailed /\ pc = "exited" => exit_code = "1")

\* the wait for packet 0 of a two-packet upload timed out: the run ended with
\* status 1 and packet 1 was never written
C2_Witness ==
    /\ pc = "exited"
    /\ exit_code = "1"
    /\ printed = <<"TimeoutError", "An upload error occurred!">>
    /\ hex_chunks_len = 2
    /\ written = <<[call |-> "reset_erase", index |-> 0], [call |-> "reset_ready", index |-> 0],
                   [call |-> "data", index |-> 0]>>

FinalizeCalls == {"finalize_1", "finalize_2"}

\* written holds, after the two reset frames, the data packets 0 .. n-1 in order
DataPacketsWritten(n) ==
    /\ Len(written) >= n + 2
    /\ \A k \in 0..(n - 1) : written[k + 3] = [call |-> "data", index |-> k]

\* C3: the first finalize frame is written only when all N data packets have
\* been written and acknowledged, the second one directly after the first has
\* returned, and nothing is written after the second; success is reported only
\* when both finalize writes have returned, so a successful run has written the
\* finalize frame exactly twice, as its last two writes.
C3_FinalizeTwiceAtEnd ==
    /\ [][Len(written') > Len(written) =>
            /\ IssuedWrite.call = "finalize_1" =>
                   /\ Len(written) = hex_chunks_len + 2
                   /\ DataPacketsWritten(hex_chunks_len)
                   /\ acked = hex_chunks_len
                   /\ returned = Len(written)
            /\ IssuedWrite.call = "finalize_2" =>
                   /\ written[Len(written)].call = "finalize_1"
                   /\ returned' = Len(written)
            /\ written # <<>> =>
                   /\ written[Len(written)].call = "finalize_1" => IssuedWrite.call = "finalize_2"
                   /\ written[Len(written)].call # "finalize_2"
            /\ IssuedWrite.call \in FinalizeCalls => last_frame' = FromHex(FINALIZE)]_vars
    /\ [](Succeeded =>
            /\ Len(written) = hex_chunks_len + 4
            /\ returned = Len(written)
            /\ written[Len(written) - 1].call = "finalize_1"
            /\ written[Len(written)].call = "finalize_2")

\* a successful two-packet upload: both finalize writes have returned
C3_Witness ==
    /\ pc = "exited"
    /\ exit_code = "0"
    /\ Succeeded
    /\ hex_chunks_len = 2
    /\ Len(written) = 6
    /\ returned = 6

\* the states of the transfer session: 0 Idle, 1 Connected, 2 Resetting,
\* 3 Transferring(packet_index), 4 Finalizing, 5 the run is over
Phase ==
    CASE pc \in {"start", "connect"} -> 0
      [] pc \in {"start_notify_indications", "start_notify_notifications"} -> 1
      [] pc \in {"reset_write_erase", "reset_sleep_1", "reset_write_ready", "reset_sleep_2"} -> 2
      [] pc \in {"loop", "write_data", "wait_ack"} -> 3
      [] pc \in {"write_finalize_1", "write_finalize_2"} -> 4
      [] OTHER -> 5

\* the file passes file_to_hex_chunks: 1 <= len(hex_chunks) <= 255
ValidPlan == file_to_hex_chunks(gif) = "none"

\* the run is over, with success reported and status 0
Completed == pc = "exited" /\ exit_code = "0" /\ Succeeded

\* C4: against a transport that connects, accepts both subscriptions, never
\* fails a write and notifies after each write, a run on a valid plan never
\* fails; it moves from each session state to the next one only, entering
\* Transferring at packet 0 and going through the packets one by one, each
\* written while the session is at it; it finalizes only after all N packets
\* were acknowledged; and it eventually completes with exit status 0.
C4_HappyPath ==
    /\ [](ValidPlan => (exc = "none" /\ exit_code # "1" /\ ~UploadFailed))
    /\ [][ValidPlan =>
            /\ Phase' \in {Phase, Phase + 1}
            /\ (Phase = 2 /\ Phase' = 3) => packet_index' = 0
            /\ (Phase = 3 /\ Phase' = 3) => packet_index' \in {packet_index, packet_index + 1}
            /\ (Phase = 3 /\ Phase' = 4) => (packet_index = hex_chunks_len /\ acked = hex_chunks_len)
            /\ (Len(written') > Len(written) /\ Phase' = 3) =>
                   IssuedWrite = [call |-> "data", index |-> acked]]_vars
    /\ [](ValidPlan /\ Phase >= 4 => DataPacketsWritten(hex_chunks_len))
    /\ ValidPlan ~> (Completed /\ acked = hex_chunks_len /\ Len(written) = hex_chunks_len + 4)

\* the run of a two-packet plan has completed
C4_Witness ==
    /\ ValidPlan
    /\ Completed
    /\ hex_chunks_len = 2
    /\ acked = 2
    /\ packet_index = 2

\* the largest payload the chunker accepts, in bytes
MaxPayload == MAX_CHUNKS * (chunk_size \div 2)

\* the file is one file_to_hex_chunks rejects: it cannot be read, is empty or
\* starts with neither signature, or is larger than 255 chunks
Rejected ==
    \/ ~gif.readable
    \/ file_read_len(gif) = 0
    \/ ~(hex_string_startswith(gif, GIF87a) \/ hex_string_startswith(gif, GIF89a))
    \/ file_read_len(gif) > MaxPayload

RECURSIVE SumBytes(_, _, _)
SumBytes(b, lo, hi) ==
    IF lo > hi THEN 0
    ELSE IF lo = hi THEN b[lo]
    ELSE Only({SumBytes(b, lo, mid) + SumBytes(b, mid + 1, hi) : mid \in {(lo + hi) \div 2}})

\* C6: in every data packet written, the first trailer byte is the sum modulo
\* 256 of the bytes of header||payload, and the second trailer byte is the high
\* byte of the sum of the bytes of header||payload||first trailer byte.
C6_TrailerCoversChecksum ==
    pc = "write_data" =>
        LET n == Len(last_frame)
            body_sum == SumBytes(last_frame, 1, n - 2)
        IN  /\ last_frame[n - 1] = body_sum % 256
            /\ last_frame[n] = (body_sum + last_frame[n - 1]) \div 256

\* bytes per chunk: chunk_size hex characters
ChunkBytes == chunk_size \div 2

\* line 138 is reached: the file was read and starts with a GIF signature
Chunked ==
    /\ gif.readable
    /\ hex_string_startswith(gif, GIF87a) \/ hex_string_startswith(gif, GIF89a)

\* C7: when file_to_hex_chunks splits a file of L bytes, it makes ceil(L/196)
\* chunks, each of exactly 196 bytes, whose bytes are, in order, the bytes of
\* the file followed by zero bytes in the last chunk: the chunks concatenated
\* and cut to L bytes are the file.
C7_ChunkerRoundTrip ==
    ((pc = "connect" \/ (pc = "exited" /\ ~opened)) /\ Chunked) =>
        LET L == file_read_len(gif)
            n == split_hex_chunks_len(gif, chunk_size)
        IN  /\ n = (L + ChunkBytes - 1) \div ChunkBytes
            /\ \A m \in 1..n :
                 LET chunk == split_hex_chunks_at(gif, chunk_size, m)
                     chunk_bytes == FromHex(chunk)
                 IN  /\ len(chunk) = chunk_size
                     /\ Len(chunk_bytes) = ChunkBytes
                     /\ \A j \in 1..ChunkBytes :
                          chunk_bytes[j] = IF (m - 1) * ChunkBytes + j <= L
                                           THEN file_read_at(gif, (m - 1) * ChunkBytes + j)
                                           ELSE 0

\* a file of 197 bytes was split: two chunks, the second one byte and 195 zeros
C7_Witness ==
    /\ pc = "connect"
    /\ file_read_len(gif) = ChunkBytes + 1
    /\ gif.fill = "ones"
    /\ split_hex_chunks_len(gif, chunk_size) = 2
    /\ FromHex(split_hex_chunks_at(gif, chunk_size, 2))[1] = 255
    /\ FromHex(split_hex_chunks_at(gif, chunk_size, 2))[2] = 0

\* the wait of line 211 returns with the event set: the session advances past
\* packet packet_index
Advances == acked' = acked + 1

\* C8 as stated: the session advances past packet i only on a notification
\* caused by packet i.
C8_OnlyOwnNotification ==
    [][Advances => \E n \in heard : n.cause = "current"]_vars

\* C8: the session advances past packet i only on a notification handled after
\* the clear() that precedes the write of packet i; a notification handled
\* before that clear() never counts for packet i.  (The notification that
\* counts may have been caused by an earlier frame.)
C8_OnlyNotificationAfterClear ==
    /\ [][Advances => (heard # {} /\ pc = "wait_ack" /\ notification_event)]_vars
    /\ [](pc \in {"write_data", "wait_ack"} => (notification_event <=> heard # {}))

\* the wait for a packet is about to return on a notification that an earlier
\* frame caused, handled after the clear(): nothing was heard of the packet itself
C8_Witness ==
    /\ pc = "wait_ack"
    /\ notification_event
    /\ heard # {}
    /\ \A n \in heard : n.cause = "earlier"
    /\ packet_index = 1

ResetCalls == {"reset_erase", "reset_ready"}

\* C9: the erase frame is the first write and the ready frame the second, each
\* written once, the two frames differ, and a data packet is written only
\* after both, when the write of the ready frame has returned.
C9_ResetBeforeData ==
    /\ [][Len(written') > Len(written) =>
            /\ IssuedWrite.call = "reset_erase" <=> Len(written) = 0
            /\ IssuedWrite.call = "reset_ready" <=> Len(written) = 1
            /\ IssuedWrite.call = "reset_erase" => last_frame' = FromHex(RESET_ERASE)
            /\ IssuedWrite.call = "reset_ready" =>
                   (last_frame' = FromHex(RESET_READY) /\ last_frame' # last_frame)
            /\ IssuedWrite.call = "data" =>
                   /\ Len(written) >= 2
                   /\ written[1].call = "reset_erase"
                   /\ written[2].call = "reset_ready"
                   /\ returned >= 2]_vars
    /\ [](Len(written) >= 1 => written[1].call = "reset_erase")
    /\ [](Len(written) >= 2 => written[2].call = "reset_ready")
    /\ [](Len(written) >= 3 => written[Len(written)].call \notin ResetCalls)

\* the first data packet is in flight after the two reset frames, both returned
C9_Witness ==
    /\ pc = "write_data"
    /\ packet_index = 0
    /\ returned = 2
    /\ written = <<[call |-> "reset_erase", index |-> 0], [call |-> "reset_ready", index |-> 0],
                   [call |-> "data", index |-> 0]>>

\* a step in which a start_notify call fails: main() leaves the call without
\* the characteristic subscribed
SubscriptionFails ==
    /\ pc \in {"start_notify_indications", "start_notify_notifications"}
    /\ pc' # pc
    /\ subscribed' = subscribed

\* C10: a frame is written only when both subscriptions have succeeded; when
\* either start_notify fails, the failure is reported, SystemExit leaves the
\* block, and the run ends with status 1 and nothing written.
C10_SubscribedBeforeWrite ==
    /\ [](written # <<>> => subscribed = Sources)
    /\ [][Len(written') > Len(written) => subscribed' = Sources]_vars
    /\ [][SubscriptionFails =>
            /\ exc' = "SystemExit"
            /\ pc' = "disconnect"
            /\ printed' \in {<<"Failed to enable indications">>, <<"Failed to enable notifications">>}]_vars
    /\ [](subscribed # Sources /\ pc \in {"disconnect", "exited"} =>
            (written = <<>> /\ ~Succeeded /\ exit_code # "0"))
    /\ [](subscribed # Sources /\ pc = "exited" => exit_code = "1")

\* the second subscription failed: the run ended with status 1, nothing written
C10_Witness ==
    /\ pc = "exited"
    /\ exit_code = "1"
    /\ subscribed = {"indications"}
    /\ printed = <<"Failed to enable notifications">>
    /\ written = <<>>

\* the run is over
Terminal == pc = "exited"

\* C11 as stated: in every terminal state the connection has been disconnected.
C11_AlwaysDisconnected == Terminal => ~connected

\* C11: once the client is made, every way out of the session (success,
\* subscription failure, write error, acknowledgment timeout, an uncaught
\* exception) goes through __aexit__, which disconnects; when __aexit__ returns
\* the link is down, and no frame is written once __aexit__ has been entered.
\* A run ends with the link still up only when disconnect() itself raised.
C11_ReleasedOnEveryExit ==
    /\ [][(connected /\ ~Terminal /\ Terminal') => pc = "disconnect"]_vars
    /\ [][(pc = "disconnect" /\ Terminal' /\ exc' = exc) => ~connected']_vars
    /\ [][(pc \in {"disconnect", "exited"}) => (written' = written)]_vars
    /\ [](Terminal /\ connected => exc = "DisconnectException")
    /\ [](Terminal /\ (Succeeded \/ UploadFailed \/ subscribed # Sources)
            /\ exc # "DisconnectException" => ~connected)

\* the wait for packet 0 timed out and the run is over with the link down
C11_Witness ==
    /\ Terminal
    /\ UploadFailed
    /\ ~connected
    /\ opened
    /\ exc = "SystemExit"
    /\ Len(written) = 3

\* the hex digits of a packet: 90 of header, 392 of chunk, 4 of trailer
PacketDigits == len(generate_header(<<>>, 0, 0)) + chunk_size + 4

\* generate_packet has returned from a call made on its own
EncoderReturned == pc = "generate_packet_returned"

\* the call is in range: index < N <= 255
InRange == encoder_call.index < encoder_call.animation_length /\ encoder_call.animation_length <= MAX_CHUNKS

HeaderBytes == FromHex(generate_header(hex_chunk(packet_index), packet_index, hex_chunks_len))

\* a data packet is being written: last_frame holds its bytes
DataFrameWritten == pc = "write_data"

\* C13 as stated: a data frame has 28 + 196 + 2 bytes.
C13_FrameIs226Bytes == DataFrameWritten => Len(last_frame) = 28 + 196 + 2

\* C13: every data frame written has exactly 45 + 196 + 2 = 243 bytes: the 45
\* bytes of the header (4 of frame start, 1 of length, 3 of page number, the 27
\* of the constant segment, 1 of count, 3 of page number again, 4 and 2 of the
\* two closing constants), the 196 bytes of the chunk and the 2 trailer bytes.
C13_FrameIs243Bytes ==
    DataFrameWritten =>
        LET header == HeaderBytes
            chunk == FromHex(hex_chunk(packet_index))
        IN  /\ Len(last_frame) = 45 + 196 + 2
            /\ Len(header) = 45
            /\ Len(header) = 4 + 1 + 3 + Len(FromHex(HEADER_CONST)) + 1 + 3 + 4 + 2
            /\ Len(FromHex(HEADER_CONST)) = 27
            /\ SubSeq(last_frame, 1, 45) = header
            /\ SubSeq(last_frame, 46, 241) = chunk
            /\ Len(chunk) = ChunkBytes

\* the second data packet of a plan is being written: 243 bytes
C13_Witness ==
    /\ DataFrameWritten
    /\ packet_index = 1
    /\ Len(last_frame) = 243
    /\ written[Len(written)] = [call |-> "data", index |-> 1]

\* byte j (from 1) of chunk number index of the file: the file's bytes, then zeros
ChunkByte(index, j) ==
    IF index * ChunkBytes + j <= file_read_len(gif) THEN file_read_at(gif, index * ChunkBytes + j) ELSE 0

\* the two page-number fields and the count byte of a packet's header
FirstIndexField(frame) == 65536 * frame[6] + 256 * frame[7] + frame[8]
SecondIndexField(frame) == 65536 * frame[37] + 256 * frame[38] + frame[39]
CountByte(frame) == frame[36]

\* C14: the k-th data packet written is written as the (k+2)-th frame, with
\* packet_index = k-1; it carries the bytes of chunk k-1 of the file, both page
\* number fields of its header encode k-1 (as 00, k-1, 00) and its count byte
\* is N = len(hex_chunks).  A run that reports success has written the data
\* packets 0, 1, .., N-1 in this order, each once, between the two reset frames
\* and the two finalize frames.
C14_PacketsInOrder ==
    /\ DataFrameWritten =>
           /\ packet_index = Len(written) - 3
           /\ packet_index < hex_chunks_len
           /\ written[Len(written)] = [call |-> "data", index |-> packet_index]
           /\ DataPacketsWritten(packet_index + 1)
           /\ FirstIndexField(last_frame) = 256 * packet_index
           /\ SecondIndexField(last_frame) = FirstIndexField(last_frame)
           /\ CountByte(last_frame) = hex_chunks_len
           /\ \A j \in 1..ChunkBytes : last_frame[45 + j] = ChunkByte(packet_index, j)
    /\ Succeeded =>
           /\ Len(written) = hex_chunks_len + 4
           /\ DataPacketsWritten(hex_chunks_len)
           /\ \A k \in 1..Len(written) :
                  written[k].call = "data" <=> (k >= 3 /\ k <= hex_chunks_len + 2)

\* a run on a two-chunk file has reported success after writing packets 0 and 1
C14_Witness ==
    /\ Succeeded
    /\ hex_chunks_len = 2
    /\ written[3] = [call |-> "data", index |-> 0]
    /\ written[4] = [call |-> "data", index |-> 1]
    /\ written[5].call = "finalize_1"

\* the byte after the frame start: hex(int(len(payload) / 2) + 41)
LengthByte(frame) == frame[Len(FromHex(FRAME_START)) + 1]

\* C15: the length byte of every data packet written is 196 + 41 = 237, which
\* is the number of bytes of the packet after the length byte up to and
\* including the first trailer byte: the 40 header bytes after the length byte,
\* the 196 bytes of the chunk and the checksum byte, without the last byte.
C15_LengthByte ==
    DataFrameWritten =>
        LET header == HeaderBytes
            after_length == Len(header) - (Len(FromHex(FRAME_START)) + 1)
        IN  /\ LengthByte(last_frame) = ChunkBytes + LENGTH_OFFSET
            /\ LengthByte(last_frame) = 237
            /\ LengthByte(header) = LengthByte(last_frame)
            /\ after_length = 40
            /\ LengthByte(last_frame) = after_length + ChunkBytes + 1
            /\ LengthByte(last_frame) = Len(SubSeq(last_frame, 6, Len(last_frame) - 1))

\* the first data packet of a run is being written, with length byte 237 = 0xED
C15_Witness ==
    /\ DataFrameWritten
    /\ packet_index = 0
    /\ LengthByte(last_frame) = 237
    /\ Len(last_frame) - 6 = 237

\* a notification has been handled since the clear() before the outstanding packet
Notified == pc \in {"write_data", "wait_ack"} /\ heard # {}

\* C16: every notification handled while a packet is outstanding sets the
\* event, whichever of the two sources sent it and whatever caused it.  Once
\* one has been handled the wait of line 211 can return and cannot time out:
\* the only way out of the wait is the advance to packet_index + 1, and when
\* that was the last packet the loop ends and the finalize frame is written.
C16_AnyNotificationAdvances ==
    /\ [][(heard' # heard /\ heard' # {}) => notification_event']_vars
    /\ [](Notified => notification_event)
    /\ []((Notified /\ pc = "wait_ack") => (ENABLED AckWaitReturn /\ ~ENABLED AckWaitTimeout))
    /\ [][(Notified /\ pc = "wait_ack" /\ pc' # pc) =>
            /\ Advances
            /\ packet_index' = packet_index + 1
            /\ pc' = "loop"
            /\ exc' = "none"
            /\ ~UploadFailed']_vars
    /\ []((pc = "loop" /\ packet_index = hex_chunks_len) => (acked = hex_chunks_len /\ ENABLED LoopEnd))

\* the wait for the last packet is about to return on one notification, sent
\* on the indications characteristic and caused by an earlier frame
C16_Witness ==
    /\ pc = "wait_ack"
    /\ packet_index = hex_chunks_len - 1
    /\ heard = {[sender |-> "indications", cause |-> "earlier"]}
    /\ notification_event

\* C17: in every data packet the session writes, the sum of the bytes the last
\* byte is computed from (header and chunk) is below 65536, also with the
\* checksum byte added, and at most the sum of the header's bytes plus 196
\* times 255; so the last byte, the sum divided by 256, is at most 255 and takes
\* one byte, and every packet has 243 bytes.
C17_SumFitsSixteenBits ==
    DataFrameWritten =>
        LET n == Len(last_frame)
            total_sum == SumBytes(last_frame, 1, n - 2)
            header == HeaderBytes
        IN  /\ total_sum < 65536
            /\ total_sum + last_frame[n - 1] < 65536
            /\ total_sum <= SumBytes(header, 1, Len(header)) + ChunkBytes * 255
            /\ last_frame[n] = total_sum \div 256
            /\ last_frame[n] \in 0..255
            /\ n = Len(header) + ChunkBytes + 2

\* the packet of the largest sum is being written: the last of 255 chunks, all
\* of its 196 bytes 0xff; the sum is 52633 and the last byte 205
C17_Witness ==
    /\ DataFrameWritten
    /\ hex_chunks_len = MAX_CHUNKS
    /\ packet_index = MAX_CHUNKS - 1
    /\ \A j \in 46..241 : last_frame[j] = 255
    /\ SumBytes(last_frame, 1, 241) = 52633
    /\ last_frame[243] = 205

\* a packet is outstanding: its write has been issued and its wait is not over
Outstanding == pc \in {"write_data", "wait_ack"}

\* C18: the event is cleared only by the loop, in the step that issues the
\* write of a packet (or fails to build it), never while a packet is
\* outstanding; a notification handled while the write is still in flight sets
\* the event, the event stays set when the write returns and the wait begins,
\* and the wait times out only when nothing was handled since the clear().
C18_NoLostAcknowledgment ==
    /\ [][(notification_event /\ ~notification_event') =>
            (pc = "loop" /\ pc' \in {"write_data", "disconnect"})]_vars
    /\ [][(Outstanding /\ notification_event) => notification_event']_vars
    /\ [][(pc = "write_data" /\ heard' \ heard # {}) => (notification_event' /\ pc' = "write_data")]_vars
    /\ [][(pc = "write_data" /\ pc' = "wait_ack") =>
            (notification_event' = notification_event /\ heard' = heard)]_vars
    /\ [][(pc = "wait_ack" /\ pc' = "disconnect") => (heard = {} /\ ~notification_event)]_vars
    /\ [][(pc = "wait_ack" /\ heard # {} /\ pc' # pc) => (Advances /\ pc' = "loop")]_vars

\* the notification the first packet caused was handled while its write was
\* still in flight: the wait has not started and the event is set
C18_Witness ==
    /\ pc = "write_data"
    /\ packet_index = 0
    /\ returned = Len(written) - 1
    /\ heard = {[sender |-> "notifications", cause |-> "current"]}
    /\ notification_event

\* how many of the frames written so far came from the calls in `calls`
WritesOf(calls) == Cardinality({k \in 1..Len(written) : written[k].call \in calls})

\* main() is between line 188 and line 227: reset_screen(), the loop, the finalize writes
InSession == Phase \in {2, 3, 4}

\* main() has left lines 188-227: by the end of the block or by an exception
SessionOver == pc \in {"disconnect", "exited"}

\* C19: when every write call returns or raises and every wait returns or
\* times out, a session that has begun (the first reset frame written) always
\* comes to its end, by success or by failure, whatever the device emits and
\* whenever its notifications are handled; and on the way it writes at most
\* 2 reset frames, N data packets and 2 finalize frames, N + 4 in all, each
\* data packet once, and waits at most N times.
C19_SessionTerminates ==
    /\ InSession ~> SessionOver
    /\ [](written # <<>> =>
            /\ Len(written) <= hex_chunks_len + 4
            /\ WritesOf(ResetCalls) <= 2
            /\ WritesOf({"data"}) <= hex_chunks_len
            /\ WritesOf(FinalizeCalls) <= 2
            /\ acked <= hex_chunks_len
            /\ acked <= WritesOf({"data"})
            /\ returned + raised <= Len(written))
    /\ [][(InSession /\ pc' # pc) =>
            \/ Len(written') = Len(written) + 1
            \/ returned' + raised' = returned + raised + 1
            \/ acked' = acked + 1
            \/ SessionOver'
            \/ pc = "reset_sleep_2"]_vars

\* a session on a two-chunk file came to its end by success, after 2 waits and 6 writes
C19_Witness ==
    /\ pc = "disconnect"
    /\ Succeeded
    /\ hex_chunks_len = 2
    /\ acked = 2
    /\ WritesOf({"data"}) = 2
    /\ Len(written) = 6

====
